---- MODULE Spec2Model ----
(***************************************************************************)
(* A model of kap.crawler.Crawler (src/kap/crawler.py): the rate limiter,  *)
(* the two fetch entry points, the per-item normalizers and the attachment *)
(* resolver.                                                               *)
(*                                                                         *)
(* Time is a discrete wall clock `now` (time.time() and datetime.now()     *)
(* read the same clock); one calendar day is TicksPerDay ticks.  The clock *)
(* is taken to be non-decreasing.                                          *)
(***************************************************************************)
EXTENDS Integers, Sequences, FiniteSets, TLC

(* ------------------------------ bounds --------------------------------- *)
MaxDelay == 2        \* request_delay ranges over 0..MaxDelay ticks
MaxClock == 7        \* the clock stops ticking here
TicksPerDay == 4     \* ticks in one calendar day
MaxItems == 3        \* longest raw API array
MaxCalls == 2        \* fetch calls made on one Crawler instance
MaxAnchors == 3      \* most <a href> elements on a detail page
MaxAncestors == 3    \* most ancestors of the label, the document included

(* --------------------------- program constants ------------------------- *)
root_url == "https://www.kap.org.tr"
DefaultRangeDays == 365

\* the threads that may use one Crawler; Main is the caller of the
\* single-threaded specifications
Threads == {"main", "other"}
Main == "main"

None == <<>>
Some(v) == <<v>>

Range(s) == {s[i] : i \in 1..Len(s)}

(* ----------------------------- JSON values ----------------------------- *)
(* A decoded JSON value of a raw item's field.  "absent" is a key the      *)
(* object does not have; "null" is JSON null (Python None).                *)
JAbsent == [tag |-> "absent", n |-> 0, s |-> "", l |-> <<>>]
JNull == [tag |-> "null", n |-> 0, s |-> "", l |-> <<>>]
JInt(k) == [tag |-> "int", n |-> k, s |-> "", l |-> <<>>]
JStr(x) == [tag |-> "str", n |-> 0, s |-> x, l |-> <<>>]
JList(xs) == [tag |-> "list", n |-> 0, s |-> "", l |-> xs]

\* dict.get(key): an absent key reads as None
DictGet(v) == IF v.tag = "absent" THEN JNull ELSE v
\* dict.get(key, default): only an absent key reads as the default
DictGetDefault(v, d) == IF v.tag = "absent" THEN d ELSE v
\* Python truthiness of a decoded value
Truthy(v) ==
    CASE v.tag = "int" -> v.n # 0
      [] v.tag = "str" -> v.s # ""
      [] v.tag = "list" -> v.l # <<>>
      [] OTHER -> FALSE

(* ------------------------- the attachment resolver --------------------- *)
(* An href is modelled by what the code asks of it: whether it starts with *)
(* "http", whether it contains "/api/file/download/", and the file id.     *)
(* An absolute href is root_url followed by the path.                      *)
Files == {"a", "b", "c"}
Hrefs ==
    [abs : {FALSE}, download : {TRUE}, file : Files]
      \cup {[abs |-> TRUE, download |-> TRUE, file |-> "a"],
            [abs |-> FALSE, download |-> FALSE, file |-> ""]}

\* href.startswith('http')
StartsWithHttp(href) == href.abs
\* '/api/file/download/' in href, and the href regex of find_all
IsDownloadHref(href) == href.download
\* urljoin(self.root_url, href) for a path href
urljoin(base, href) == [root |-> base, file |-> href.file]
\* the absolute URL an href that starts with http already is
AsUrl(href) == [root |-> root_url, file |-> href.file]

MakeAbsolute(href) ==
    IF ~StartsWithHttp(href) THEN urljoin(root_url, href) ELSE AsUrl(href)

\* attachment_urls.append(href) without the membership test
AppendUnique_Always(urls, u) == Append(urls, u)
\* if href not in attachment_urls: attachment_urls.append(href)
AppendUnique(urls, u) ==
    IF u \notin Range(urls) THEN Append(urls, u) ELSE urls

\* the inner loop over parent.find_all('a', href=True)
RECURSIVE CollectLinks(_, _)
CollectLinks(urls, links) ==
    IF links = <<>> THEN urls
    ELSE LET href == Head(links) IN
         CollectLinks(IF IsDownloadHref(href)
                        THEN AppendUnique(urls, MakeAbsolute(href))
                        ELSE urls,
                      Tail(links))

(* A detail page: `anchors` are the <a href> elements in document order;   *)
(* `label` says whether a "Bildirim Ekleri" text node exists; `ancestors`  *)
(* are that node's ancestors from its parent up to the document, each the  *)
(* range lo..hi of the anchors it contains; `script` are the file ids of   *)
(* download paths that occur in the raw text outside any anchor.           *)
FindAll(page, anc) == SubSeq(page.anchors, anc.lo, anc.hi)

\* while parent: ... parent = parent.find_parent()
RECURSIVE WalkParents(_, _, _)
WalkParents(urls, page, k) ==
    IF k > Len(page.ancestors) THEN urls
    ELSE WalkParents(CollectLinks(urls, FindAll(page, page.ancestors[k])),
                     page, k + 1)

StructuralTier(page) ==
    IF page.label THEN WalkParents(<<>>, page, 1) ELSE <<>>

\* soup.find_all('a', href=re.compile(r'/api/file/download/'))
AnchorScan(urls, page) == CollectLinks(urls, page.anchors)

\* re.findall(r'/api/file/download/[a-zA-Z0-9]+', html_text): the paths of
\* the download anchors, then those that occur only in scripts
RECURSIVE DownloadPaths(_)
DownloadPaths(links) ==
    IF links = <<>> THEN <<>>
    ELSE IF IsDownloadHref(Head(links))
           THEN <<Head(links).file>> \o DownloadPaths(Tail(links))
           ELSE DownloadPaths(Tail(links))
RegexFindAll(page) == DownloadPaths(page.anchors) \o page.script

RECURSIVE CollectMatches(_, _)
CollectMatches(urls, matches) ==
    IF matches = <<>> THEN urls
    ELSE CollectMatches(
           AppendUnique(urls,
               MakeAbsolute([abs |-> FALSE, download |-> TRUE,
                             file |-> Head(matches)])),
           Tail(matches))

RegexTier(urls, page) ==
    IF urls = <<>> THEN CollectMatches(urls, RegexFindAll(page)) ELSE urls

\* the body of _fetch_attachment_urls after a successful GET
ParseAttachmentUrls(page) ==
    RegexTier(AnchorScan(StructuralTier(page), page), page)

Doc(n) == [lo |-> 1, hi |-> n]
AnchorRanges(n) ==
    {[lo |-> 1, hi |-> 0]}
      \cup {r \in [lo : 1..n, hi : 1..n] : r.lo <= r.hi}
\* an element's anchors are among those of the element that contains it
Within(inner, outer) ==
    inner.hi < inner.lo \/ (outer.lo <= inner.lo /\ inner.hi <= outer.hi)
AncestorChains(n) ==
    {c \o <<Doc(n)>> :
       c \in {d \in UNION {[1..k -> AnchorRanges(n)] : k \in 0..(MaxAncestors - 1)} :
                \A i \in 1..Len(d) :
                   Within(d[i], IF i < Len(d) THEN d[i + 1] ELSE Doc(n))}}
AnchorSeqs(n) == UNION {[1..k -> Hrefs] : k \in 0..n}
\* download paths in the raw text outside any anchor: none, one, or one
\* that occurs twice around another
ScriptSeqs == {<<>>, <<"a">>, <<"b", "a", "b">>}
\* the detail pages whose anchors are a: without the label, and with it
\* under every chain of ancestors
PagesWith(a) ==
    {[anchors |-> a, label |-> FALSE, ancestors |-> <<>>, script |-> sc] :
        sc \in ScriptSeqs}
      \cup
    {[anchors |-> a, label |-> TRUE, ancestors |-> c, script |-> sc] :
        c \in AncestorChains(Len(a)), sc \in ScriptSeqs}
NoPage == [anchors |-> <<>>, label |-> FALSE, ancestors |-> <<>>, script |-> <<>>]

\* the detail pages a GET of the fetch pipeline may be answered with: no
\* link at all, one link, and two links under the label
SamplePages ==
    {NoPage,
     [anchors |-> <<[abs |-> FALSE, download |-> TRUE, file |-> "a"]>>,
      label |-> FALSE, ancestors |-> <<>>, script |-> <<>>],
     [anchors |-> <<[abs |-> FALSE, download |-> TRUE, file |-> "a"],
                    [abs |-> FALSE, download |-> TRUE, file |-> "b"]>>,
      label |-> TRUE, ancestors |-> <<Doc(2)>>, script |-> <<>>]}

(* ------------------------------ raw items ------------------------------ *)
(* A raw item of the API array: a JSON object with the fields the code     *)
(* reads, or a JSON value that is no object (isdict = FALSE).              *)
RawItem(di, ac, rs) ==
    [isdict |-> TRUE, disclosureIndex |-> di, attachmentCount |-> ac,
     relatedStocks |-> rs]
NonDictItem ==
    [isdict |-> FALSE, disclosureIndex |-> JAbsent, attachmentCount |-> JAbsent,
     relatedStocks |-> JAbsent]
\* the shapes of item a batch is made of: a plain record, one with
\* attachments, one without attachmentCount, one without disclosureIndex,
\* one with a null attachmentCount, and a value that is no object
Items ==
    {RawItem(JInt(1), JInt(0), JNull),
     RawItem(JInt(2), JInt(1), JNull),
     RawItem(JInt(2), JAbsent, JNull),
     RawItem(JAbsent, JInt(1), JNull),
     RawItem(JInt(1), JNull, JNull),
     NonDictItem}
\* the shapes of relatedStocks: absent, null, an empty and a non-empty
\* string, an empty list, a list, a list with a repeated element, a number;
\* and an item without disclosureIndex
RelatedItems ==
    {RawItem(JInt(1), JInt(0), rs) :
        rs \in {JAbsent, JNull, JStr(""), JStr("x"), JList(<<>>),
                JList(<<"y", "x">>), JList(<<"y", "x", "y">>), JInt(5)}}
      \cup {RawItem(JAbsent, JInt(0), JStr("x"))}
SeqsUpTo(S, n) == UNION {[1..k -> S] : k \in 0..n}
\* batches that differ in relatedStocks
RelatedData == SeqsUpTo(RelatedItems, MaxItems)
DataSet == SeqsUpTo(Items, MaxItems)
\* batches in which every item has attachments
AttachmentData == SeqsUpTo({RawItem(JInt(2), JInt(1), JNull)}, MaxItems)

\* limit: omitted, negative, zero, and two positive values
Limits == {None} \cup {Some(n) : n \in (-1)..2}

\* data[:limit + 1]
Slice_OffByOne(data, limit) ==
    SubSeq(data, 1, IF limit + 1 < Len(data) THEN limit + 1 ELSE Len(data))
\* data[:limit]
Slice(data, limit) ==
    IF limit >= 0
      THEN SubSeq(data, 1, IF limit < Len(data) THEN limit ELSE Len(data))
      ELSE SubSeq(data, 1, Len(data) + limit)
\* items = data[:limit] if limit else data
Truncate(data, limit) ==
    IF limit # None /\ limit[1] # 0 THEN Slice(data, limit[1]) ELSE data

(* ----------------------------- exceptions ------------------------------ *)
Exceptions ==
    {"RequestException", "HTTPError", "JSONDecodeError", "TypeError",
     "AttributeError"}
\* a handler that names only the transport errors of requests
FetchCatches_TransportOnly(exc) == exc \in {"RequestException", "HTTPError"}
\* except Exception as e, in fetch_*_announcements
FetchCatches(exc) == exc \in Exceptions
\* except Exception as e, in _extract_*_announcement
ExtractCatches(exc) == exc \in Exceptions
\* a resolver without its handler
ResolverCatches_Nothing(exc) == FALSE
\* except Exception as e, in _fetch_attachment_urls
ResolverCatches(exc) == exc \in Exceptions

(* ---------------------------- the normalizer --------------------------- *)
\* attachment_count = item.get("attachmentCount", 0)
attachment_count(item) == DictGetDefault(item.attachmentCount, JInt(0))
\* attachment_count > 0 raises TypeError unless the value is a number
ComparesWithInt(v) == v.tag = "int"
has_attachment(item) == attachment_count(item).n > 0

\* the branches without the test `if related_stocks:`
related_companies_NoTruthTest(item) ==
    LET related_stocks == DictGet(item.relatedStocks) IN
    IF related_stocks.tag = "list" THEN related_stocks.l
    ELSE IF related_stocks.tag = "str" THEN <<related_stocks.s>>
    ELSE <<>>
\* related_stocks = item.get("relatedStocks") and the branches after it
related_companies(item) ==
    LET related_stocks == DictGet(item.relatedStocks) IN
    IF Truthy(related_stocks)
      THEN IF related_stocks.tag = "list" THEN related_stocks.l
           ELSE IF related_stocks.tag = "str" THEN <<related_stocks.s>>
           ELSE <<>>
      ELSE <<>>

\* if has_attachment or fetch_attachments
ExtractStep_Or(item, fetch_attachments) ==
    IF ~item.isdict THEN [step |-> "raise", exc |-> "AttributeError"]
    ELSE IF ~Truthy(DictGet(item.disclosureIndex))
      THEN [step |-> "none", exc |-> ""]
    ELSE IF ~ComparesWithInt(attachment_count(item))
      THEN [step |-> "raise", exc |-> "TypeError"]
    ELSE IF has_attachment(item) \/ fetch_attachments
      THEN [step |-> "fetch", exc |-> ""]
    ELSE [step |-> "record", exc |-> ""]

(* What _extract_*_announcement does with an item before any request:      *)
(*   "raise"  an exception is raised inside the try block                  *)
(*   "none"   return None (no disclosureIndex)                             *)
(*   "fetch"  call _fetch_attachment_urls, then build the record           *)
(*   "record" build the record with attachment_pdf_urls = []               *)
ExtractStep(item, fetch_attachments) ==
    IF ~item.isdict THEN [step |-> "raise", exc |-> "AttributeError"]
    ELSE IF ~Truthy(DictGet(item.disclosureIndex))
      THEN [step |-> "none", exc |-> ""]
    ELSE IF ~ComparesWithInt(attachment_count(item))
      THEN [step |-> "raise", exc |-> "TypeError"]
    ELSE IF has_attachment(item) /\ fetch_attachments
      THEN [step |-> "fetch", exc |-> ""]
    ELSE [step |-> "record", exc |-> ""]

\* the announcement dictionary
Announcement(item, kind, urls) ==
    [announcement_id |-> ToString(item.disclosureIndex.n),
     kind |-> kind,
     related |-> related_companies(item),
     has_attachment |-> has_attachment(item),
     attachment_count |-> attachment_count(item).n,
     detail_pdf_url |-> root_url \o "/tr/api/BildirimPdf/"
                          \o ToString(item.disclosureIndex.n),
     attachment_pdf_urls |-> urls]

(* -------------------------------- dates -------------------------------- *)
\* strftime("%Y-%m-%d"): the calendar day of an instant
strftime(t) == t \div TicksPerDay
\* datetime.now() - timedelta(hours=365)
MinusDays_Hours(t, days) == t - days
\* datetime.now() - timedelta(days=365)
MinusDays(t, days) == t - days * TicksPerDay

Dates == {None, Some(strftime(MaxDelay) - DefaultRangeDays - 1), Some(strftime(MaxDelay))}

(* -------------------------------- state -------------------------------- *)
VARIABLES
    now,                \* the wall clock
    request_delay,      \* self.request_delay
    last_request_time,  \* self.last_request_time
    pc,                 \* where each thread is
    elapsed,            \* _enforce_rate_limit's local, per thread
    wake,               \* earliest instant a sleeping thread's sleep returns
    ret,                \* where each thread continues after _enforce_rate_limit
    completions,        \* instants of the last two completions of _enforce_rate_limit
    issued,             \* instants at which the last two requests were issued
    args,               \* the arguments of the running fetch call
    to_date, from_date, \* the locals after the defaults are applied
    payload,            \* the request body, None before it is built
    read_at,            \* the instants datetime.now() returned in this call
    post_outcome,       \* how the search POST of this call ended
    data,               \* the decoded JSON array
    items,              \* data[:limit]
    idx,                \* the item the loop is at
    announcements,      \* the list the parse loop builds
    kept,               \* the index in items of each element of announcements
    result,             \* what the fetch call returned
    outcome,            \* "none", "returned" or "raised"
    log,                \* waits and requests of this call, in order
    get_failed,         \* items of this call whose detail GET failed
    calls,              \* fetch calls made so far
    page,               \* the detail page handed to the resolver
    attachment_urls     \* what _fetch_attachment_urls last returned

vars ==
    <<now, request_delay, last_request_time, pc, elapsed, wake, ret,
      completions, issued, args, to_date, from_date, payload, read_at,
      post_outcome,
      data, items, idx, announcements, kept, result, outcome, log, get_failed,
      calls, page, attachment_urls>>

\* groups of variables an action leaves alone together
limiter_v == <<last_request_time, elapsed, wake, completions>>
dates_v == <<to_date, from_date, payload, read_at>>
parse_v == <<data, items, idx, announcements, kept>>
ends_v == <<result, outcome>>
call_v == <<args, calls, post_outcome, get_failed>>
resolver_v == <<page, attachment_urls>>

NoArgs ==
    [kind |-> "fund", from_date |-> None, to_date |-> None, limit |-> None,
     fetch_attachments |-> FALSE]

\* Crawler.__init__; time.time() is far beyond any request_delay
Init ==
    /\ now = MaxDelay
    /\ request_delay \in 0..MaxDelay
    /\ last_request_time = 0
    /\ pc = [t \in Threads |-> "idle"]
    /\ elapsed = [t \in Threads |-> 0]
    /\ wake = [t \in Threads |-> 0]
    /\ ret = [t \in Threads |-> "none"]
    /\ completions = <<>>
    /\ issued = <<>>
    /\ args = NoArgs
    /\ to_date = None
    /\ from_date = None
    /\ payload = None
    /\ read_at = <<>>
    /\ post_outcome = "none"
    /\ data = <<>>
    /\ items = <<>>
    /\ idx = 0
    /\ announcements = <<>>
    /\ kept = <<>>
    /\ result = <<>>
    /\ outcome = "none"
    /\ log = <<>>
    /\ get_failed = {}
    /\ calls = 0
    /\ page = NoPage
    /\ attachment_urls = <<>>

LastTwo(s) == IF Len(s) > 2 THEN Tail(s) ELSE s

\* time passes
Tick ==
    /\ now < MaxClock
    /\ now' = now + 1
    /\ UNCHANGED <<request_delay, pc, ret, limiter_v, issued, dates_v, parse_v,
                   ends_v, call_v, log, resolver_v>>

\* time passes while a thread sleeps
SleepTick ==
    /\ \E t \in Threads : pc[t] = "rl_sleep" /\ now < wake[t]
    /\ Tick

(* --------------------------- _enforce_rate_limit ------------------------ *)
\* sleeping for the time already elapsed
SleepFor_Elapsed(delay, e) == e
\* time.sleep(self.request_delay - elapsed)
SleepFor(delay, e) == delay - e

\* elapsed = time.time() - self.last_request_time; the test; time.sleep(...)
EnforceRead(t) ==
    /\ pc[t] = "rl_read"
    /\ LET e == now - last_request_time IN
         /\ elapsed' = [elapsed EXCEPT ![t] = e]
         /\ IF e < request_delay
              THEN /\ wake' = [wake EXCEPT ![t] = now + SleepFor(request_delay, e)]
                   /\ pc' = [pc EXCEPT ![t] = "rl_sleep"]
              ELSE /\ pc' = [pc EXCEPT ![t] = "rl_write"]
                   /\ UNCHANGED wake
    /\ UNCHANGED <<now, request_delay, last_request_time, ret, completions,
                   issued, dates_v, parse_v, ends_v, call_v, log, resolver_v>>

\* time.sleep returns, no earlier than asked
EnforceWake(t) ==
    /\ pc[t] = "rl_sleep"
    /\ now >= wake[t]
    /\ pc' = [pc EXCEPT ![t] = "rl_write"]
    /\ UNCHANGED <<now, request_delay, ret, limiter_v, issued, dates_v, parse_v,
                   ends_v, call_v, log, resolver_v>>

\* self.last_request_time = time.time()
EnforceWrite(t) ==
    /\ pc[t] = "rl_write"
    /\ last_request_time' = now
    /\ completions' = LastTwo(Append(completions, now))
    /\ log' = Append(log, [op |-> "wait", item |-> 0])
    /\ pc' = [pc EXCEPT ![t] = ret[t]]
    /\ UNCHANGED <<now, request_delay, elapsed, wake, ret, issued, dates_v,
                   parse_v, ends_v, call_v, resolver_v>>

(* ------------------- fetch_fund/company_announcements ------------------ *)
\* a caller enters fetch_fund_announcements or fetch_company_announcements
\* with arguments drawn from the given sets
Call(kinds, fds, tds, lims, fas, maxcalls) ==
    /\ pc[Main] \in {"idle", "done"}
    /\ calls < maxcalls
    /\ \E kind \in kinds, fd \in fds, td \in tds, lim \in lims, fa \in fas :
         args' = [kind |-> kind, from_date |-> fd, to_date |-> td,
                  limit |-> lim, fetch_attachments |-> fa]
    /\ calls' = calls + 1
    /\ to_date' = None
    /\ from_date' = None
    /\ payload' = None
    /\ read_at' = <<>>
    /\ post_outcome' = "none"
    /\ data' = <<>>
    /\ items' = <<>>
    /\ idx' = 0
    /\ announcements' = <<>>
    /\ kept' = <<>>
    /\ result' = <<>>
    /\ outcome' = "none"
    /\ log' = <<>>
    /\ get_failed' = {}
    /\ pc' = [pc EXCEPT ![Main] = "rl_read"]
    /\ ret' = [ret EXCEPT ![Main] = "to_date"]
    /\ UNCHANGED <<now, request_delay, limiter_v, issued, resolver_v>>

\* if to_date is None: to_date = datetime.now().strftime("%Y-%m-%d")
DefaultToDate ==
    /\ pc[Main] = "to_date"
    /\ to_date' = IF args.to_date = None THEN Some(strftime(now)) ELSE args.to_date
    /\ read_at' = IF args.to_date = None THEN Append(read_at, now) ELSE read_at
    /\ pc' = [pc EXCEPT ![Main] = "from_date"]
    /\ UNCHANGED <<now, request_delay, ret, limiter_v, issued, from_date, payload,
                   parse_v, ends_v, call_v, log, resolver_v>>

\* if from_date is None: from_date = (datetime.now() - timedelta(days=365))...
\* and the payload
DefaultFromDate ==
    /\ pc[Main] = "from_date"
    /\ from_date' = IF args.from_date = None
                      THEN Some(strftime(MinusDays(now, DefaultRangeDays)))
                      ELSE args.from_date
    /\ read_at' = IF args.from_date = None THEN Append(read_at, now) ELSE read_at
    /\ payload' = Some([fromDate |-> from_date'[1], toDate |-> to_date[1]])
    /\ pc' = [pc EXCEPT ![Main] = "post"]
    /\ UNCHANGED <<now, request_delay, ret, limiter_v, issued, to_date, parse_v,
                   ends_v, call_v, log, resolver_v>>

\* self.session.post(...) sends the request
PostSend ==
    /\ pc[Main] = "post"
    /\ issued' = LastTwo(Append(issued, now))
    /\ log' = Append(log, [op |-> "POST", item |-> 0])
    /\ pc' = [pc EXCEPT ![Main] = "post_wait"]
    /\ UNCHANGED <<now, request_delay, ret, limiter_v, dates_v, parse_v, ends_v,
                   call_v, resolver_v>>

\* the fetch call ends: return [] after a handler or a logged failure, or
\* the exception leaves the call
FetchEnds(how) ==
    /\ result' = <<>>
    /\ outcome' = how
    /\ pc' = [pc EXCEPT ![Main] = "done"]

\* an exception raised inside the try block of the fetch call
FetchRaises(exc) ==
    FetchEnds(IF FetchCatches(exc) THEN "returned" ELSE "raised")

\* session.post raises (timeout, connection failure), or response.json() does
PostRaises ==
    /\ pc[Main] = "post_wait"
    /\ \E o \in {"transport", "badjson"} :
         /\ post_outcome' = o
         /\ FetchRaises(IF o = "transport" THEN "RequestException"
                                           ELSE "JSONDecodeError")
    /\ UNCHANGED <<now, request_delay, ret, limiter_v, issued, dates_v, parse_v,
                   args, calls, get_failed, log, resolver_v>>

\* response.ok is false, or the decoded body is no list
PostRejected ==
    /\ pc[Main] = "post_wait"
    /\ \E o \in {"status", "notlist"} : post_outcome' = o
    /\ FetchEnds("returned")
    /\ UNCHANGED <<now, request_delay, ret, limiter_v, issued, dates_v, parse_v,
                   args, calls, get_failed, log, resolver_v>>

\* the body is a JSON array, one of ds: _parse_*_announcements starts
PostList(ds) ==
    /\ pc[Main] = "post_wait"
    /\ post_outcome' = "list"
    /\ \E d \in ds :
         /\ data' = d
         /\ items' = Truncate(d, args.limit)
    /\ announcements' = <<>>
    /\ kept' = <<>>
    /\ idx' = 1
    /\ pc' = [pc EXCEPT ![Main] = "item"]
    /\ UNCHANGED <<now, request_delay, ret, limiter_v, issued, dates_v, ends_v,
                   args, calls, get_failed, log, resolver_v>>

(* --------------------- _parse_*_announcements loop --------------------- *)
\* announcements.insert(0, ann)
KeepAnnouncement_Prepend(anns, ann) == <<ann>> \o anns
\* if ann: announcements.append(ann)
KeepAnnouncement(anns, ann) == Append(anns, ann)

\* one item that needs no detail page: dropped, or its record appended
ExtractItem ==
    /\ pc[Main] = "item"
    /\ idx <= Len(items)
    /\ LET item == items[idx]
           st == ExtractStep(item, args.fetch_attachments) IN
         /\ st.step # "fetch"
         /\ IF st.step = "raise" /\ ~ExtractCatches(st.exc)
              THEN /\ FetchRaises(st.exc)
                   /\ UNCHANGED <<announcements, kept, idx>>
              ELSE /\ announcements' =
                        IF st.step = "record"
                          THEN KeepAnnouncement(announcements,
                                   Announcement(item, args.kind, <<>>))
                          ELSE announcements
                   /\ kept' = IF st.step = "record" THEN Append(kept, idx)
                                                     ELSE kept
                   /\ idx' = idx + 1
                   /\ UNCHANGED <<pc, ends_v>>
    /\ UNCHANGED <<now, request_delay, ret, limiter_v, issued, dates_v, data,
                   items, call_v, log, resolver_v>>

\* one item with attachments to resolve: _fetch_attachment_urls is entered
ExtractFetch ==
    /\ pc[Main] = "item"
    /\ idx <= Len(items)
    /\ ExtractStep(items[idx], args.fetch_attachments).step = "fetch"
    /\ pc' = [pc EXCEPT ![Main] = "rl_read"]
    /\ ret' = [ret EXCEPT ![Main] = "get"]
    /\ UNCHANGED <<now, request_delay, limiter_v, issued, dates_v, parse_v,
                   ends_v, call_v, log, resolver_v>>

\* self.session.get(url, ...) sends the request
GetSend ==
    /\ pc[Main] = "get"
    /\ issued' = LastTwo(Append(issued, now))
    /\ log' = Append(log, [op |-> "GET", item |-> idx])
    /\ pc' = [pc EXCEPT ![Main] = "get_wait"]
    /\ UNCHANGED <<now, request_delay, ret, limiter_v, dates_v, parse_v, ends_v,
                   call_v, resolver_v>>

\* the rest of _extract_*_announcement once the resolver returned urls
FinishItem(urls) ==
    /\ announcements' =
         KeepAnnouncement(announcements, Announcement(items[idx], args.kind, urls))
    /\ kept' = Append(kept, idx)
    /\ idx' = idx + 1
    /\ pc' = [pc EXCEPT ![Main] = "item"]
    /\ UNCHANGED ends_v

\* a resolver that tries the GET a second time after a failure
GetRaises_Retry ==
    /\ pc[Main] = "get_wait"
    /\ idx \notin get_failed
    /\ get_failed' = get_failed \cup {idx}
    /\ pc' = [pc EXCEPT ![Main] = "rl_read"]
    /\ UNCHANGED <<now, request_delay, ret, limiter_v, issued, dates_v, parse_v,
                   ends_v, args, calls, post_outcome, log, resolver_v>>
\* session.get raises, or raise_for_status does
GetRaises ==
    /\ pc[Main] = "get_wait"
    /\ get_failed' = get_failed \cup {idx}
    /\ \E exc \in {"RequestException", "HTTPError"} :
         IF ResolverCatches(exc)
           THEN /\ attachment_urls' = <<>>
                /\ FinishItem(<<>>)
           ELSE /\ UNCHANGED attachment_urls
                /\ IF ExtractCatches(exc)
                     THEN /\ idx' = idx + 1
                          /\ pc' = [pc EXCEPT ![Main] = "item"]
                          /\ UNCHANGED <<announcements, kept, ends_v>>
                     ELSE /\ FetchRaises(exc)
                          /\ UNCHANGED <<announcements, kept, idx>>
    /\ UNCHANGED <<now, request_delay, ret, limiter_v, issued, dates_v, data,
                   items, args, calls, post_outcome, log, page>>

\* the detail page, one of pages, arrives and is parsed
GetPage(pages) ==
    /\ pc[Main] = "get_wait"
    /\ \E p \in pages :
         /\ attachment_urls' = ParseAttachmentUrls(p)
         /\ FinishItem(attachment_urls')
    /\ UNCHANGED <<now, request_delay, ret, limiter_v, issued, dates_v, data,
                   items, call_v, log, page>>

\* the loop is over: return announcements
ParseReturns ==
    /\ pc[Main] = "item"
    /\ idx > Len(items)
    /\ result' = announcements
    /\ outcome' = "returned"
    /\ pc' = [pc EXCEPT ![Main] = "done"]
    /\ UNCHANGED <<now, request_delay, ret, limiter_v, issued, dates_v, parse_v,
                   call_v, log, resolver_v>>

(* ------------------------------ two threads ---------------------------- *)
\* thread t enters a fetch call
ThreadFetch(t) ==
    /\ pc[t] = "idle"
    /\ pc' = [pc EXCEPT ![t] = "rl_read"]
    /\ ret' = [ret EXCEPT ![t] = "tpost"]
    /\ UNCHANGED <<now, request_delay, limiter_v, issued, dates_v, parse_v,
                   ends_v, call_v, log, resolver_v>>

\* thread t sends its search POST, which fails: the call returns []
ThreadPost(t) ==
    /\ pc[t] = "tpost"
    /\ issued' = LastTwo(Append(issued, now))
    /\ pc' = [pc EXCEPT ![t] = "tdone"]
    /\ UNCHANGED <<now, request_delay, ret, limiter_v, dates_v, parse_v, ends_v,
                   call_v, log, resolver_v>>

(* ------------------------------ the resolver --------------------------- *)
InitResolver ==
    /\ Init
    /\ request_delay = 0

\* _fetch_attachment_urls is called and a page of at most n anchors comes
\* back
ResolverGet(n) ==
    /\ pc[Main] = "idle"
    /\ \E a \in AnchorSeqs(n) : \E p \in PagesWith(a) : page' = p
    /\ pc' = [pc EXCEPT ![Main] = "soup"]
    /\ UNCHANGED <<now, request_delay, ret, limiter_v, issued, dates_v, parse_v,
                   ends_v, call_v, log, attachment_urls>>

\* the three tiers run over the page; return attachment_urls
ResolverParse ==
    /\ pc[Main] = "soup"
    /\ attachment_urls' = ParseAttachmentUrls(page)
    /\ pc' = [pc EXCEPT ![Main] = "parsed"]
    /\ UNCHANGED <<now, request_delay, ret, limiter_v, issued, dates_v, parse_v,
                   ends_v, call_v, log, page>>

(* ----------------------------- specifications -------------------------- *)
(* The fetch pipeline over every shape of batch, limit and flag.  The      *)
(* clock advances only while the caller sleeps in the rate limiter, and    *)
(* both dates are left to their defaults.                                  *)
Next ==
    \/ SleepTick
    \/ Call({"fund", "company"}, {None}, {None}, Limits, BOOLEAN, 1)
    \/ EnforceRead(Main)
    \/ EnforceWake(Main)
    \/ EnforceWrite(Main)
    \/ DefaultToDate
    \/ DefaultFromDate
    \/ PostSend
    \/ PostRaises
    \/ PostRejected
    \/ PostList(DataSet)
    \/ ExtractItem
    \/ ExtractFetch
    \/ GetSend
    \/ GetRaises
    \/ GetPage(SamplePages)
    \/ ParseReturns

Spec == Init /\ [][Next]_vars

(* The rate limiter under a free-running clock: a sequence of fetch calls  *)
(* whose items all have attachments to resolve.                            *)
NextRate ==
    \/ Tick
    \/ Call({"fund"}, {None}, {None}, {None}, {TRUE}, MaxCalls)
    \/ EnforceRead(Main)
    \/ EnforceWake(Main)
    \/ EnforceWrite(Main)
    \/ DefaultToDate
    \/ DefaultFromDate
    \/ PostSend
    \/ PostRaises
    \/ PostRejected
    \/ PostList(AttachmentData)
    \/ ExtractFetch
    \/ GetSend
    \/ GetRaises
    \/ GetPage({NoPage})
    \/ ParseReturns

SpecRate == Init /\ [][NextRate]_vars

(* The date defaults under a free-running clock, in the first fetch call   *)
(* on a Crawler (which never sleeps: time.time() is far beyond the delay). *)
NextDates ==
    \/ Tick
    \/ Call({"fund", "company"}, Dates, Dates, {None}, {FALSE}, 1)
    \/ EnforceRead(Main)
    \/ EnforceWrite(Main)
    \/ DefaultToDate
    \/ DefaultFromDate
    \/ PostSend
    \/ PostRaises
    \/ PostRejected
    \/ PostList({<<>>})
    \/ ParseReturns

SpecDates == Init /\ [][NextDates]_vars

(* Two threads share one Crawler with a positive request_delay; each makes *)
(* one fetch call.                                                         *)
InitThreads ==
    /\ Init
    /\ request_delay >= 1

NextThreads ==
    \/ Tick
    \/ \E t \in Threads :
         \/ ThreadFetch(t)
         \/ EnforceRead(t)
         \/ EnforceWake(t)
         \/ EnforceWrite(t)
         \/ ThreadPost(t)

SpecThreads == InitThreads /\ [][NextThreads]_vars

(* _fetch_attachment_urls over every detail page.                          *)
NextResolver ==
    \/ ResolverGet(MaxAnchors)
    \/ ResolverParse

SpecResolver == InitResolver /\ [][NextResolver]_vars

(* The normalizers over every shape of relatedStocks, in one fetch call     *)
(* without attachment resolution (so the call never sleeps).               *)
NextRelated ==
    \/ Call({"fund", "company"}, {None}, {None}, {None}, {FALSE}, 1)
    \/ EnforceRead(Main)
    \/ EnforceWrite(Main)
    \/ DefaultToDate
    \/ DefaultFromDate
    \/ PostSend
    \/ PostRaises
    \/ PostRejected
    \/ PostList(RelatedData)
    \/ ExtractItem
    \/ ParseReturns

SpecRelated == Init /\ [][NextRelated]_vars

(* ================================ claims =============================== *)
Done == pc[Main] = "done"
ParsedList == Done /\ post_outcome = "list"
Last(q) == q[Len(q)]
Gap(q) == Len(q) = 2 => q[2] - q[1] >= request_delay

\* an item the normalizer returns None for: no (truthy) disclosureIndex, or
\* an extraction that raises
MissingId(item) == item.isdict /\ ~Truthy(DictGet(item.disclosureIndex))
ExtractionRaises(item) ==
    \/ ~item.isdict
    \/ /\ Truthy(DictGet(item.disclosureIndex))
       /\ item.attachmentCount.tag \notin {"absent", "int"}
FailsToNormalize(item) == MissingId(item) \/ ExtractionRaises(item)
Survivors(its) == {i \in 1..Len(its) : ~FailsToNormalize(its[i])}
Increasing(q) == \A i, j \in 1..Len(q) : i < j => q[i] < q[j]
\* result is made, in order, of the records of exactly the items in `from`
RecordsOf(from) ==
    /\ Len(result) = Len(kept)
    /\ Increasing(kept)
    /\ Range(kept) = from
    /\ \A k \in 1..Len(result) :
         /\ result[k].announcement_id = ToString(items[kept[k]].disclosureIndex.n)
         /\ result[k].kind = args.kind
GetsOf(i) == {k \in 1..Len(log) : log[k].op = "GET" /\ log[k].item = i}

(* C1: a fetch call never raises to its caller; when the search POST ends  *)
(* in a transport exception, a non-success status, a body that is no JSON  *)
(* or a decoded body that is no array, the call returns the empty list.    *)
C1_NeverRaises ==
    /\ outcome # "raised"
    /\ (Done /\ post_outcome \in {"transport", "status", "badjson", "notlist"})
         => (outcome = "returned" /\ result = <<>>)
C1_Witness ==
    Done /\ post_outcome = "badjson" /\ outcome = "returned" /\ result = <<>>

InLimiter(t) == pc[t] \in {"rl_sleep", "rl_write"}
C3_Serialized ==
    /\ \A t, u \in Threads : (t # u) => ~(InLimiter(t) /\ InLimiter(u))
    /\ Gap(completions)

(* C4: the list a fetch call returns is the order-preserving image of the  *)
(* truncated array without the items that fail to normalize: an item       *)
(* without disclosureIndex, or whose extraction raises, is dropped, every  *)
(* other item yields its record, and the records keep the API's order.     *)
C4_OrderPreservingImage ==
    ParsedList =>
      /\ outcome = "returned"
      /\ items = Truncate(data, args.limit)
      /\ RecordsOf(Survivors(items))
C4_Witness ==
    /\ ParsedList
    /\ Len(items) = 3
    /\ ExtractionRaises(items[2])
    /\ kept = <<1, 3>>
    /\ result[1].announcement_id # result[2].announcement_id

(* C5 as stated, for N >= 1: with limit = N and an array of M >= N items   *)
(* the call returns exactly N announcements, the records of the first N    *)
(* items.                                                                  *)
LimitGiven ==
    /\ ParsedList
    /\ args.limit # None
    /\ args.limit[1] >= 0
    /\ Len(data) >= args.limit[1]
C5_ExactlyN ==
    (LimitGiven /\ args.limit[1] >= 1) =>
      /\ Len(result) = args.limit[1]
      /\ RecordsOf(1..args.limit[1])
(* C5 as amended: with limit = N >= 1 and M >= N items the call returns    *)
(* the records of those of the first N items that normalize, in order: at  *)
(* most N, and exactly N when none of the first N fails; with N = 0 the    *)
(* array is not truncated.                                                 *)
C5_FirstNSurvivors ==
    LimitGiven =>
      LET N == args.limit[1] IN
      IF N >= 1
        THEN /\ items = SubSeq(data, 1, N)
             /\ Len(result) <= N
             /\ RecordsOf(Survivors(SubSeq(data, 1, N)))
             /\ (Survivors(SubSeq(data, 1, N)) = 1..N => Len(result) = N)
        ELSE /\ items = data
             /\ RecordsOf(Survivors(data))
C5_Witness ==
    /\ LimitGiven
    /\ args.limit[1] = 2
    /\ Len(data) = 3
    /\ ~FailsToNormalize(data[1])
    /\ ~FailsToNormalize(data[2])
    /\ Len(result) = 2

(* C6: a detail-page GET is issued for an item only if its attachmentCount *)
(* is positive and fetch_attachments is true; every other record has an    *)
(* empty attachment_pdf_urls and no GET was made for it.                   *)
NeedsResolver(item) ==
    /\ item.isdict
    /\ Truthy(DictGet(item.disclosureIndex))
    /\ item.attachmentCount.tag = "int"
    /\ item.attachmentCount.n > 0
    /\ args.fetch_attachments
C6_ResolverOnlyWhenNeeded ==
    /\ \A k \in 1..Len(log) :
         log[k].op = "GET" =>
           (log[k].item \in 1..Len(items) /\ NeedsResolver(items[log[k].item]))
    /\ \A k \in 1..Len(announcements) :
         ~(announcements[k].has_attachment /\ args.fetch_attachments) =>
           (announcements[k].attachment_pdf_urls = <<>> /\ GetsOf(kept[k]) = {})
C6_Witness ==
    /\ ParsedList
    /\ ~args.fetch_attachments
    /\ \E k \in 1..Len(result) :
         result[k].has_attachment /\ result[k].attachment_pdf_urls = <<>>
    /\ \E k \in 1..Len(result) : ~result[k].has_attachment

(* C7: a detail-page GET that fails (transport or status) does not fail    *)
(* the batch: its announcement is returned with attachment_pdf_urls = []   *)
(* and its other fields, and every later item is still normalized.         *)
C7_GetFailureAbsorbed ==
    /\ outcome # "raised"
    /\ ParsedList =>
         \A i \in get_failed :
           /\ \E k \in 1..Len(result) :
                /\ kept[k] = i
                /\ result[k].attachment_pdf_urls = <<>>
                /\ result[k].announcement_id =
                     ToString(items[i].disclosureIndex.n)
                /\ result[k].has_attachment
                /\ result[k].attachment_count = items[i].attachmentCount.n
           /\ \A j \in Survivors(items) : j > i => j \in Range(kept)
C7_Witness ==
    /\ ParsedList
    /\ 1 \in get_failed
    /\ Len(items) = 3
    /\ kept = <<1, 2, 3>>
    /\ result[3].attachment_pdf_urls # <<>>

(* C8: every raw item with a disclosureIndex whose attachmentCount is a    *)
(* non-negative integer, absent or null yields a record with               *)
(* attachment_count = (attachmentCount or 0) and has_attachment exactly    *)
(* when attachment_count > 0.                                              *)
CountOrZero(item) ==
    IF item.attachmentCount.tag = "int" THEN item.attachmentCount.n ELSE 0
C8_CountOrZero ==
    ParsedList =>
      \A i \in 1..Len(items) :
        (/\ items[i].isdict
         /\ Truthy(DictGet(items[i].disclosureIndex))
         /\ items[i].attachmentCount.tag \in {"int", "absent", "null"}
         /\ CountOrZero(items[i]) >= 0)
        => \E k \in 1..Len(result) :
             /\ kept[k] = i
             /\ result[k].attachment_count = CountOrZero(items[i])
             /\ result[k].has_attachment = (CountOrZero(items[i]) > 0)

(* C9: the list _fetch_attachment_urls returns holds no absolute URL       *)
(* twice, whichever tiers and hrefs it came from, and its elements are in  *)
(* the order in which each URL was first seen.                             *)
\* the absolute URLs of the download hrefs of a run of anchors, repeats kept
RECURSIVE SeenIn(_)
SeenIn(links) ==
    IF links = <<>> THEN <<>>
    ELSE (IF Head(links).download
            THEN <<[root |-> root_url, file |-> Head(links).file]>>
            ELSE <<>>) \o SeenIn(Tail(links))
RECURSIVE SeenInAncestors(_, _)
SeenInAncestors(p, k) ==
    IF ~p.label \/ k > Len(p.ancestors) THEN <<>>
    ELSE SeenIn(SubSeq(p.anchors, p.ancestors[k].lo, p.ancestors[k].hi))
           \o SeenInAncestors(p, k + 1)
\* every URL the resolver comes across, in the order it comes across them
Seen(p) ==
    LET dom == SeenInAncestors(p, 1) \o SeenIn(p.anchors) IN
    IF dom # <<>> THEN dom
    ELSE [i \in 1..Len(p.script) |-> [root |-> root_url, file |-> p.script[i]]]
FirstSeen(u, q) == CHOOSE i \in 1..Len(q) : q[i] = u /\ \A j \in 1..(i - 1) : q[j] # u
C9_UniqueFirstSeen ==
    pc[Main] = "parsed" =>
      /\ \A i, j \in 1..Len(attachment_urls) :
           i # j => attachment_urls[i] # attachment_urls[j]
      /\ Range(attachment_urls) = Range(Seen(page))
      /\ \A i, j \in 1..Len(attachment_urls) :
           i < j => FirstSeen(attachment_urls[i], Seen(page))
                      < FirstSeen(attachment_urls[j], Seen(page))
C9_Witness ==
    /\ pc[Main] = "parsed"
    /\ page.label
    /\ Len(page.anchors) = 3
    /\ page.ancestors[1] = [lo |-> 2, hi |-> 3]
    /\ page.anchors[1].download /\ page.anchors[1].abs
    /\ page.anchors[2].download /\ ~page.anchors[2].abs
    /\ page.anchors[1].file = page.anchors[2].file
    /\ page.anchors[3].download /\ page.anchors[3].file # page.anchors[2].file
    /\ Len(attachment_urls) = 2

(* C10 as stated: when from_date is omitted the fromDate sent is exactly   *)
(* 365 days before the toDate sent, hence fromDate <= toDate.              *)
FromOmitted == payload # None /\ args.from_date = None
C10_YearBeforeToDate ==
    FromOmitted =>
      /\ payload[1].fromDate = payload[1].toDate - DefaultRangeDays
      /\ payload[1].fromDate <= payload[1].toDate
(* C10 as amended: when from_date is omitted the fromDate sent is 365 days *)
(* before the current date at the moment the default is computed, whatever *)
(* toDate is; when to_date is omitted too, toDate is the current date read *)
(* just before, so toDate - 365 <= fromDate <= toDate, with equality on    *)
(* the left unless midnight falls between the two reads.                   *)
C10_YearBeforeToday ==
    FromOmitted =>
      /\ payload[1].fromDate = strftime(Last(read_at)) - DefaultRangeDays
      /\ args.to_date = None =>
           /\ payload[1].toDate = strftime(read_at[1])
           /\ payload[1].toDate - DefaultRangeDays <= payload[1].fromDate
           /\ payload[1].fromDate <= payload[1].toDate
           /\ (strftime(read_at[1]) = strftime(read_at[2]) =>
                 payload[1].fromDate = payload[1].toDate - DefaultRangeDays)
      /\ args.to_date # None =>
           /\ payload[1].toDate = args.to_date[1]
           /\ (payload[1].fromDate <= payload[1].toDate
                 <=> args.to_date[1] >= strftime(Last(read_at)) - DefaultRangeDays)
C10_Witness ==
    /\ FromOmitted
    /\ args.to_date = None
    /\ payload[1].fromDate = payload[1].toDate - DefaultRangeDays + 1

(* C11 as stated: for every raw item with a disclosureIndex the related    *)
(* entities of its record are [] when relatedStocks is null or absent, [x] *)
(* when it is a single string x, and the same list, in the same order and  *)
(* with its repeats, when it is a list.                                    *)
HasRecord(i) == \E k \in 1..Len(result) : kept[k] = i
RelatedOf(i) == result[CHOOSE k \in 1..Len(result) : kept[k] = i].related
C11_RelatedBySpec ==
    ParsedList =>
      \A i \in 1..Len(items) :
        Truthy(DictGet(items[i].disclosureIndex)) =>
          LET rs == items[i].relatedStocks IN
          /\ HasRecord(i)
          /\ rs.tag \in {"null", "absent"} => RelatedOf(i) = <<>>
          /\ rs.tag = "str" => RelatedOf(i) = <<rs.s>>
          /\ rs.tag = "list" => RelatedOf(i) = rs.l
(* C11 as amended: the related entities are [] when relatedStocks is null, *)
(* absent, the empty string or any other falsy or non-string, non-list     *)
(* value, [x] when it is a non-empty string x, and the same list, in the   *)
(* same order and with its repeats, when it is a list.                     *)
C11_RelatedByTruthiness ==
    ParsedList =>
      \A i \in 1..Len(items) :
        Truthy(DictGet(items[i].disclosureIndex)) =>
          LET rs == items[i].relatedStocks IN
          /\ HasRecord(i)
          /\ rs.tag \in {"null", "absent", "int"} => RelatedOf(i) = <<>>
          /\ (rs.tag = "str" /\ rs.s # "") => RelatedOf(i) = <<rs.s>>
          /\ (rs.tag = "str" /\ rs.s = "") => RelatedOf(i) = <<>>
          /\ rs.tag = "list" => RelatedOf(i) = rs.l
C11_Witness ==
    /\ ParsedList
    /\ Len(result) = 3
    /\ result[1].related = <<"y", "x", "y">>
    /\ result[2].related = <<"x">>
    /\ items[3].relatedStocks = JStr("")
    /\ result[3].related = <<>>

(* C12: within one fetch call every request is immediately preceded by     *)
(* exactly one _enforce_rate_limit call and is never retried: one search   *)
(* POST, at most one detail GET per item, and for a batch in which N items *)
(* need attachment resolution exactly N+1 waits and N+1 requests, whether  *)
(* or not any of them fails.                                               *)
IsRequest(e) == e.op \in {"POST", "GET"}
OpsOf(o) == {k \in 1..Len(log) : log[k].op = o}
Resolved == {i \in 1..Len(items) : NeedsResolver(items[i])}
C12_OneWaitPerRequest ==
    /\ \A k \in 1..Len(log) :
         IF k % 2 = 1 THEN log[k].op = "wait" ELSE IsRequest(log[k])
    /\ \A k \in OpsOf("POST") : k = 2
    /\ \A i \in 1..Len(items) : Cardinality(GetsOf(i)) <= 1
    /\ Done =>
         /\ Cardinality(OpsOf("POST")) = 1
         /\ Cardinality(OpsOf("GET")) = Cardinality(Resolved)
         /\ Cardinality(OpsOf("wait")) = Cardinality(Resolved) + 1
         /\ Len(log) = 2 * (Cardinality(Resolved) + 1)
         /\ \A i \in Resolved : Cardinality(GetsOf(i)) = 1
C12_Witness ==
    /\ ParsedList
    /\ Len(items) = 3
    /\ Resolved = {1, 3}
    /\ get_failed = {1}
    /\ Len(log) = 6
    /\ Len(result) = 3

(* C13: whenever a limit is supplied, 0 included, the raw array is         *)
(* truncated to at most limit items before normalization, so the call      *)
(* returns at most limit announcements (stated for limit >= 0).            *)
C13_AtMostLimit ==
    (ParsedList /\ args.limit # None /\ args.limit[1] >= 0) =>
      /\ Len(items) <= args.limit[1]
      /\ Len(result) <= args.limit[1]

(* C14: for every detail page the list _fetch_attachment_urls returns      *)
(* equals, as a set and in order, the cascade taken as reference: walk up  *)
(* from the label and stop at the first ancestor that yields a download    *)
(* anchor, append the document-wide anchor scan, keep first occurrences,   *)
(* and use the raw-text matches only when those two tiers found nothing.   *)
RECURSIVE WithoutRepeats(_, _)
WithoutRepeats(acc, q) ==
    IF q = <<>> THEN acc
    ELSE WithoutRepeats(IF Head(q) \in Range(acc) THEN acc
                                                  ELSE Append(acc, Head(q)),
                        Tail(q))
RECURSIVE FirstYield(_, _)
FirstYield(p, k) ==
    IF ~p.label \/ k > Len(p.ancestors) THEN <<>>
    ELSE LET here == SeenIn(SubSeq(p.anchors, p.ancestors[k].lo,
                                   p.ancestors[k].hi)) IN
         IF here # <<>> THEN here ELSE FirstYield(p, k + 1)
Cascade(p) ==
    LET dom == WithoutRepeats(<<>>, FirstYield(p, 1) \o SeenIn(p.anchors)) IN
    IF dom # <<>> THEN dom
    ELSE WithoutRepeats(<<>>,
           [i \in 1..Len(p.script) |-> [root |-> root_url, file |-> p.script[i]]])
C14_EqualsCascade ==
    pc[Main] = "parsed" => attachment_urls = Cascade(page)
C14_SameSetAsCascade ==
    pc[Main] = "parsed" =>
      /\ Range(attachment_urls) = Range(Cascade(page))
      /\ Len(attachment_urls) = Len(Cascade(page))

====
